---- MODULE Spec2Model ----
(***************************************************************************)
(* Marker Tab and Enter key navigation (src/index.js).                     *)
(*                                                                         *)
(* The state is the google.maps.markerNavigation object, the marker        *)
(* objects' icon property, the map centre, the set of live document        *)
(* key-down listeners added by __addClickMarkerViaEnterKey, and whether    *)
(* document.activeElement is the internal map div.  JavaScript arrays are  *)
(* 0-based; sequences here are 1-based and are read through At.            *)
(***************************************************************************)
EXTENDS Integers, Sequences, FiniteSets

\* size of the universe of Marker objects the host page owns
NumMarkers == 2
\* number of updateMarkerCount calls explored in one behaviour
MaxRebinds == 1

Markers == 1..NumMarkers
\* JavaScript undefined, as a marker reference and as a listener reference
NoMarker == 0
NoListener == 0
\* handles of the listeners addDomListener returns
ListenerIds == 1..(MaxRebinds + 3)

\* icon values: icons.selected, icons.deselected, the icon the host gave a
\* marker, and undefined (an out-of-range read of markerIcons)
selectedMarkerIcon == <<"selected", 0>>
deselectedMarkerIcon == <<"deselected", 0>>
UndefinedIcon == <<"undefined", 0>>
HostIcon(m) == <<"own", m>>

\* marker.getPosition()
getPosition(m) == <<"pos", m>>
InitialCenter == <<"pos", 0>>

RECURSIVE IsIncreasing(_)
IsIncreasing(s) ==
  IF Len(s) <= 1 THEN TRUE
  ELSE s[1] < s[2] /\ IsIncreasing(Tail(s))

\* the marker arrays the host passes: distinct Marker objects, in id order
MarkerLists ==
  { s \in UNION { [1..n -> Markers] : n \in 0..NumMarkers } : IsIncreasing(s) }

\* JavaScript array read arr[i]: undefined outside 0..length-1
At(arr, i, undef) == IF i >= 0 /\ i < Len(arr) THEN arr[i + 1] ELSE undef

VARIABLES
  markers,                \* google.maps.markerNavigation.markers
  closureMarkers,         \* const markers captured by __addTabNavToMapMarkers
  currentMarker,          \* google.maps.markerNavigation.currentMarker
  markerIcons,            \* google.maps.markerNavigation.markerIcons
  previousMarkerListener, \* google.maps.markerNavigation.previousMarkerListener
  distinctMarkerIconFlag, \* keyNavInit's argument
  icon,                   \* marker.icon of every Marker object
  mapCenter,              \* the position last given to map.panTo
  listeners,              \* live listeners added by __addClickMarkerViaEnterKey
  focused,                \* document.activeElement === mapDiv
  rebinds,                \* number of updateMarkerCount calls so far
  last,                   \* what the last handler was given and did
  armed,                  \* direction of an immediately preceding Tab outside
  run,                    \* consecutive Tabs in the container from a sentinel
  streak                  \* consecutive suppressed Tabs in one direction

vars == <<markers, closureMarkers, currentMarker, markerIcons,
          previousMarkerListener, distinctMarkerIconFlag, icon, mapCenter,
          listeners, focused, rebinds, last, armed, run, streak>>

NoClicks == [m \in Markers |-> 0]
NoRun == [dir |-> "none", count |-> 0, n |-> 0]
NoStreak == [dir |-> "none", count |-> 0]

\* the record of one handler invocation
Event(kind, key, shift, inContainer) ==
  [kind |-> kind, key |-> key, shift |-> shift, inContainer |-> inContainer,
   prevented |-> FALSE, clicks |-> NoClicks, panned |-> FALSE,
   selected |-> NoMarker, deselected |-> NoMarker, restored |-> UndefinedIcon,
   iconIndex |-> -1, candidate |-> 0]

\* markers.map((marker) => marker.icon)
getMarkerIconsFromMarkers(ms, icons) == [i \in 1..Len(ms) |-> icons[ms[i]]]

\* the mutable state the helper functions read and write, with the record of
\* what they did (ev) and their return value (ret)
Nav ==
  [markers |-> markers, currentMarker |-> currentMarker,
   markerIcons |-> markerIcons, icon |-> icon, mapCenter |-> mapCenter,
   listeners |-> listeners, ev |-> last, ret |-> NoListener]

\* a handle no live listener and no stored reference uses
FreshListener(s, held) ==
  CHOOSE i \in ListenerIds :
    /\ i # held
    /\ \A l \in s.listeners : l.id # i
    /\ \A j \in ListenerIds :
         (j # held /\ \A l \in s.listeners : l.id # j) => i <= j

\* __addClickMarkerViaEnterKey: attaches the Enter listener, returns its handle
addClickMarkerViaEnterKey(s, marker, held) ==
  IF marker = NoMarker THEN [s EXCEPT !.ret = NoListener]
  ELSE LET id == FreshListener(s, held)
       IN [s EXCEPT !.listeners = @ \cup {[id |-> id, marker |-> marker]},
                    !.ret = id]

\* __selectMarker without the map.panTo call
selectMarkerNoPan(s, marker, held) ==
  IF marker = NoMarker THEN [s EXCEPT !.ret = NoListener]
  ELSE LET s1 == [s EXCEPT !.icon[marker] = selectedMarkerIcon,
                           !.ev.selected = marker]
       IN addClickMarkerViaEnterKey(s1, marker, held)

\* __selectMarker
selectMarker(s, marker, held) ==
  IF marker = NoMarker THEN [s EXCEPT !.ret = NoListener]
  ELSE LET s1 == [s EXCEPT !.icon[marker] = selectedMarkerIcon,
                           !.ev.selected = marker]
           s2 == [s1 EXCEPT !.mapCenter = getPosition(marker),
                            !.ev.panned = TRUE]
       IN addClickMarkerViaEnterKey(s2, marker, held)

\* __deselectMarker
deselectMarker(s, enterListener, marker) ==
  IF marker = NoMarker THEN s
  ELSE LET restoredIcon ==
             IF Len(s.markerIcons) # 0
               THEN At(s.markerIcons, s.currentMarker, UndefinedIcon)
               ELSE deselectedMarkerIcon
           s1 == [s EXCEPT !.icon[marker] = restoredIcon,
                           !.ev.deselected = marker,
                           !.ev.restored = restoredIcon,
                           !.ev.iconIndex = IF Len(s.markerIcons) # 0
                                              THEN s.currentMarker ELSE -1]
       IN IF enterListener # NoListener
            THEN [s1 EXCEPT !.listeners = { l \in @ : l.id # enterListener }]
            ELSE s1

\* __iterateMarkers committing the cursor before it deselects
iterateMarkersCommitFirst(s, listener, shift) ==
  LET s0 == IF Len(s.markers) = 0 THEN [s EXCEPT !.currentMarker = 0] ELSE s
      mod == IF shift THEN -1 ELSE 1
      s1 == selectMarker([s0 EXCEPT !.ev.candidate = s0.currentMarker + mod],
                         At(s0.markers, s0.currentMarker + mod, NoMarker),
                         listener)
      newListener == s1.ret
      s2 == deselectMarker([s1 EXCEPT !.currentMarker = @ + mod], listener,
                           At(s1.markers, s1.currentMarker, NoMarker))
  IN [s2 EXCEPT !.ret = newListener]

\* __iterateMarkers stepping forward whatever the shift key
iterateMarkersForwardOnly(s, listener, shift) ==
  LET s0 == IF Len(s.markers) = 0 THEN [s EXCEPT !.currentMarker = 0] ELSE s
      mod == 1
      s1 == selectMarker([s0 EXCEPT !.ev.candidate = s0.currentMarker + mod],
                         At(s0.markers, s0.currentMarker + mod, NoMarker),
                         listener)
      newListener == s1.ret
      s2 == deselectMarker(s1, listener,
                           At(s1.markers, s1.currentMarker, NoMarker))
  IN [s2 EXCEPT !.currentMarker = @ + mod, !.ret = newListener]

\* __iterateMarkers
iterateMarkers(s, listener, shift) ==
  LET s0 == IF Len(s.markers) = 0 THEN [s EXCEPT !.currentMarker = 0] ELSE s
      mod == IF shift THEN -1 ELSE 1
      s1 == selectMarker([s0 EXCEPT !.ev.candidate = s0.currentMarker + mod],
                         At(s0.markers, s0.currentMarker + mod, NoMarker),
                         listener)
      newListener == s1.ret
      s2 == deselectMarker(s1, listener,
                           At(s1.markers, s1.currentMarker, NoMarker))
  IN [s2 EXCEPT !.currentMarker = @ + mod, !.ret = newListener]

\* keyNavInit, with icons.selected and icons.deselected both given; the map
\* div is not focused and every marker shows the icon the host gave it
Init ==
  /\ markers \in MarkerLists
  /\ closureMarkers = markers
  /\ currentMarker = -1
  /\ distinctMarkerIconFlag \in BOOLEAN
  /\ icon = [m \in Markers |-> HostIcon(m)]
  /\ markerIcons = IF distinctMarkerIconFlag
                     THEN getMarkerIconsFromMarkers(markers, icon)
                     ELSE << >>
  /\ previousMarkerListener = NoListener
  /\ mapCenter = InitialCenter
  /\ listeners = {}
  /\ focused = FALSE
  /\ rebinds = 0
  /\ last = Event("init", "none", FALSE, FALSE)
  /\ armed = "none"
  /\ run = NoRun
  /\ streak = NoStreak

\* no Marker object shows icons.selected
NothingSelected == \A m \in Markers : icon[m] # selectedMarkerIcon

\* no marker of the current sequence shows icons.selected
NoCurrentSelected ==
  \A i \in 1..Len(markers) : icon[markers[i]] # selectedMarkerIcon

\* the sentinel states a traversal of the whole marker sequence starts from
RunStart(shift) ==
  /\ Len(markers) >= 1
  /\ NoCurrentSelected
  /\ currentMarker = (IF shift THEN Len(markers) ELSE -1)

RunDir(shift) == IF shift THEN "bwd" ELSE "fwd"

\* the document key-down listener __addTabNavToMapMarkers installs
TabNavListener(key, shift) ==
  LET ev == Event("keydown", key, shift, focused)
  IN IF key = "Tab" /\ ~focused
       THEN /\ currentMarker' = (IF ~shift THEN -1 ELSE Len(closureMarkers))
            /\ last' = ev
            /\ UNCHANGED <<previousMarkerListener, icon, mapCenter, listeners>>
     ELSE IF focused /\ key = "Tab"
       THEN LET s == iterateMarkers([Nav EXCEPT !.ev = ev],
                                    previousMarkerListener, shift)
            IN /\ previousMarkerListener' = s.ret
               /\ icon' = s.icon
               /\ mapCenter' = s.mapCenter
               /\ listeners' = s.listeners
               /\ IF s.currentMarker >= Len(closureMarkers) /\ ~shift
                    THEN /\ currentMarker' = Len(closureMarkers)
                         /\ last' = s.ev
                  ELSE IF s.currentMarker <= -1 /\ shift
                    THEN /\ currentMarker' = -1
                         /\ last' = s.ev
                  ELSE /\ currentMarker' = s.currentMarker
                       /\ last' = [s.ev EXCEPT !.prevented = TRUE]
     ELSE /\ last' = [ev EXCEPT !.clicks =
                        [m \in Markers |->
                           IF focused /\ key = "Enter"
                             THEN Cardinality({ l \in listeners : l.marker = m })
                             ELSE 0]]
          /\ UNCHANGED <<currentMarker, previousMarkerListener, icon,
                         mapCenter, listeners>>

\* a key-down event dispatched to the document: the Tab observer, then the
\* Enter listeners of __addClickMarkerViaEnterKey that are live
KeyDown(key, shift) ==
  /\ TabNavListener(key, shift)
  /\ armed' = (IF key = "Tab" /\ ~focused THEN RunDir(shift) ELSE "none")
  /\ run' = (IF key = "Tab" /\ focused
               THEN IF RunStart(shift)
                      THEN [dir |-> RunDir(shift), count |-> 1,
                            n |-> Len(markers)]
                    ELSE IF run.dir = RunDir(shift) /\ run.count <= run.n
                      THEN [run EXCEPT !.count = @ + 1]
                    ELSE NoRun
               ELSE NoRun)
  /\ streak' = (IF key = "Tab" /\ focused /\ last'.prevented
                  THEN IF streak.dir = RunDir(shift)
                         THEN [streak EXCEPT !.count =
                                 IF @ <= NumMarkers THEN @ + 1 ELSE @]
                         ELSE [dir |-> RunDir(shift), count |-> 1]
                  ELSE NoStreak)
  /\ UNCHANGED <<markers, closureMarkers, markerIcons, distinctMarkerIconFlag,
                 focused, rebinds>>

\* the focusout listener keyNavInit installs on the internal map div
FocusOut ==
  LET s == deselectMarker([Nav EXCEPT !.ev = Event("focusout", "none", FALSE,
                                                   focused)],
                          previousMarkerListener,
                          At(markers, currentMarker, NoMarker))
  IN /\ icon' = s.icon
     /\ listeners' = s.listeners
     /\ last' = s.ev
     /\ currentMarker' = -1
     /\ focused' = FALSE
     /\ armed' = "none"
     /\ run' = NoRun
     /\ streak' = NoStreak
     /\ UNCHANGED <<markers, closureMarkers, markerIcons,
                    previousMarkerListener, distinctMarkerIconFlag, mapCenter,
                    rebinds>>

\* the internal map div becomes document.activeElement (no handler runs)
FocusIn ==
  /\ ~focused
  /\ focused' = TRUE
  /\ last' = Event("focusin", "none", FALSE, FALSE)
  /\ run' = NoRun
  /\ streak' = NoStreak
  /\ UNCHANGED <<markers, closureMarkers, currentMarker, markerIcons,
                 previousMarkerListener, distinctMarkerIconFlag, icon,
                 mapCenter, listeners, rebinds, armed>>

\* updateMarkerCount, called with a new array: the array captured by the
\* key-down listener (closureMarkers) stays the one given to keyNavInit
updateMarkerCount(newMarkers) ==
  /\ rebinds < MaxRebinds
  /\ rebinds' = rebinds + 1
  /\ markers' = newMarkers
  /\ markerIcons' = getMarkerIconsFromMarkers(newMarkers, icon)
  /\ previousMarkerListener' = NoListener
  /\ last' = Event("rebind", "none", FALSE, focused)
  /\ armed' = "none"
  /\ run' = NoRun
  /\ streak' = NoStreak
  /\ UNCHANGED <<closureMarkers, currentMarker, distinctMarkerIconFlag, icon,
                 mapCenter, listeners, focused>>

Keys == {"Tab", "Enter", "Other"}

Next ==
  \/ \E key \in Keys, shift \in BOOLEAN : KeyDown(key, shift)
  \/ FocusOut
  \/ FocusIn
  \/ \E newMarkers \in MarkerLists : updateMarkerCount(newMarkers)

Spec == Init /\ [][Next]_vars

\* the handlers alone: updateMarkerCount is never called
NextNoRebind ==
  \/ \E key \in Keys, shift \in BOOLEAN : KeyDown(key, shift)
  \/ FocusOut
  \/ FocusIn

SpecNoRebind == Init /\ [][NextNoRebind]_vars

TypeOK ==
  /\ markers \in MarkerLists
  /\ closureMarkers \in MarkerLists
  /\ currentMarker \in -1..(NumMarkers + 1)
  /\ previousMarkerListener \in ListenerIds \cup {NoListener}
  /\ \A l \in listeners : l.id \in ListenerIds /\ l.marker \in Markers
  /\ focused \in BOOLEAN
  /\ rebinds \in 0..MaxRebinds

\* ---------------------------------------------------------------------
\* Properties
\* ---------------------------------------------------------------------

\* the cursor addresses a marker of the current sequence
CursorInRange == currentMarker >= 0 /\ currentMarker < Len(markers)

\* the last handler was the Tab observer, run while the map div had focus
TabInContainer(e) == e.kind = "keydown" /\ e.key = "Tab" /\ e.inContainer

\* the last handler was the Tab observer, run while focus was elsewhere
TabOutside(e) == e.kind = "keydown" /\ e.key = "Tab" /\ ~e.inContainer

\* the 0-based index of marker m in the array ms (-1 when absent)
IndexOf(ms, m) ==
  IF \E i \in 1..Len(ms) : ms[i] = m
    THEN (CHOOSE i \in 1..Len(ms) : ms[i] = m) - 1
    ELSE -1

\* C1: after every handler, a marker that carries the selected icon is
\* markers[cursor] with 0 <= cursor < length (so at most one marker carries
\* it, and none does when the cursor is a sentinel).
C1_SelectedIsAtCursor ==
  \A i \in 1..Len(markers) :
    icon[markers[i]] = selectedMarkerIcon => currentMarker = i - 1

\* C2: after every handler, at most one Enter-activation listener is live.
C2_AtMostOneLiveListener == Cardinality(listeners) <= 1

\* C3: an Enter key-down with the container focused and a marker selected
\* (cursor in range) triggers exactly one click, on markers[cursor].
C3_EnterClicksSelectedOnce ==
  (last.kind = "keydown" /\ last.key = "Enter" /\ last.inContainer
     /\ CursorInRange
     /\ icon[markers[currentMarker + 1]] = selectedMarkerIcon)
    => last.clicks =
         [m \in Markers |-> IF m = markers[currentMarker + 1] THEN 1 ELSE 0]

\* C4: from cursor = -1 with nothing selected, the container focused and
\* N >= 1 markers, the k-th consecutive forward Tab (k <= N) selects marker
\* k-1 and is suppressed; the (N+1)-th selects nothing, leaves the cursor at
\* length and is not suppressed.
C4_ForwardTraversal ==
  run.dir = "fwd" =>
    IF run.count <= run.n
      THEN /\ currentMarker = run.count - 1
           /\ last.selected = markers[run.count]
           /\ icon[markers[run.count]] = selectedMarkerIcon
           /\ last.prevented
      ELSE /\ last.selected = NoMarker
           /\ currentMarker = Len(markers)
           /\ ~last.prevented

\* C5: from cursor = length with nothing selected, the container focused and
\* N >= 1 markers, the k-th consecutive Shift+Tab (k <= N) selects marker N-k
\* and is suppressed; the (N+1)-th selects nothing, leaves the cursor at -1
\* and is not suppressed.
C5_BackwardTraversal ==
  run.dir = "bwd" =>
    IF run.count <= run.n
      THEN /\ currentMarker = run.n - run.count
           /\ last.selected = markers[run.n - run.count + 1]
           /\ icon[markers[run.n - run.count + 1]] = selectedMarkerIcon
           /\ last.prevented
      ELSE /\ last.selected = NoMarker
           /\ NoCurrentSelected
           /\ currentMarker = -1
           /\ ~last.prevented

\* a backward traversal of a whole sequence of two or more markers, bound by
\* updateMarkerCount, has just left it
C5_Witness ==
  /\ run.dir = "bwd"
  /\ run.n >= 2
  /\ run.count = run.n + 1
  /\ rebinds > 0

\* C6: a Tab in the container that directly follows a Tab outside it with the
\* same shift state selects marker 0 when forward and marker length-1 when
\* backward (length >= 1).
C6_FirstTabEntersAtEnd ==
  [][ (armed # "none" /\ TabInContainer(last')
         /\ RunDir(last'.shift) = armed /\ Len(markers) >= 1)
        => /\ last'.selected =
                (IF armed = "fwd" THEN markers[1] ELSE markers[Len(markers)])
           /\ icon'[last'.selected] = selectedMarkerIcon ]_vars

\* C7: a Tab in the container is suppressed iff the resulting cursor addresses
\* a marker of the current sequence, and that marker is then selected;
\* otherwise the cursor is length (forward) or -1 (backward).
C7_SuppressedIffSelected ==
  TabInContainer(last) =>
    /\ last.prevented <=> CursorInRange
    /\ last.prevented => icon[markers[currentMarker + 1]] = selectedMarkerIcon
    /\ ~last.prevented =>
         currentMarker = (IF last.shift THEN -1 ELSE Len(markers))

\* C8: focus loss leaves cursor = -1, no marker carrying the selected icon and
\* no Enter-activation listener live.
C8_FocusLossResets ==
  last.kind = "focusout" =>
    /\ currentMarker = -1
    /\ NoCurrentSelected
    /\ listeners = {}

\* C9: a marker that carried the selected icon and that a handler deselects
\* then carries the icon captured for it when the distinct-icon flag was set
\* at initialization, and deselectedIcon otherwise.
C9_DeselectRestoresIcon ==
  [][ (last'.deselected # NoMarker
         /\ icon[last'.deselected] = selectedMarkerIcon)
        => icon'[last'.deselected] =
             (IF distinctMarkerIconFlag
                THEN At(markerIcons, IndexOf(markers, last'.deselected),
                        UndefinedIcon)
                ELSE deselectedMarkerIcon) ]_vars

\* C10: a step whose candidate index addresses a marker sets that marker's
\* icon to selectedIcon and the map centre to its position; a step whose
\* candidate addresses no marker, a focus loss and a Tab outside the
\* container leave the map centre unchanged.
C10_SelectSetsIconAndPans ==
  [][ LET c == At(markers, last'.candidate, NoMarker)
      IN /\ (TabInContainer(last') /\ c # NoMarker)
              => /\ icon'[c] = selectedMarkerIcon
                 /\ mapCenter' = getPosition(c)
         /\ ((TabInContainer(last') /\ c = NoMarker)
               \/ last'.kind = "focusout" \/ TabOutside(last'))
              => mapCenter' = mapCenter ]_vars

\* a step has moved the selection, and the map, from one marker to the next
C10_Witness ==
  /\ TabInContainer(last)
  /\ last.selected # NoMarker
  /\ last.deselected # NoMarker
  /\ mapCenter = getPosition(last.selected)
  /\ rebinds > 0

\* C11: after every handler, previousMarkerListener is non-null iff the
\* cursor is in [0, length); it is null when the cursor is -1 or length.
C11_ListenerRefIffInRange ==
  (previousMarkerListener # NoListener) <=> CursorInRange

\* C12: after every handler the cursor is in [-1, length] of the current
\* marker sequence, and no marker outside that sequence carries the selected
\* icon.
C12_CursorWithinCurrentBounds ==
  /\ currentMarker >= -1
  /\ currentMarker <= Len(markers)
  /\ \A m \in Markers :
       IndexOf(markers, m) = -1 => icon[m] # selectedMarkerIcon

\* C13: on return from updateMarkerCount the cursor is a sentinel, no marker
\* carries the selected icon and no Enter-activation listener is live.
C13_RebindResets ==
  last.kind = "rebind" =>
    /\ currentMarker \in {-1, Len(markers)}
    /\ NothingSelected
    /\ listeners = {}

\* C14: after a re-bind to M markers, M different from the initial count, a
\* forward traversal from cursor = -1 follows the new list: the k-th Tab
\* (k <= M) selects marker k-1 and is suppressed, and only the (M+1)-th is
\* not suppressed, with the cursor at M.
C14_BoundariesFollowRebind ==
  (run.dir = "fwd" /\ rebinds > 0 /\ Len(markers) # Len(closureMarkers)) =>
    /\ run.n = Len(markers)
    /\ last.prevented <=> run.count <= run.n
    /\ run.count <= run.n =>
         /\ last.selected = markers[run.count]
         /\ currentMarker = run.count - 1
    /\ run.count > run.n =>
         /\ last.selected = NoMarker
         /\ currentMarker = run.n

\* C16: with an empty marker sequence a Tab or Shift+Tab in the container
\* changes no icon, does not pan, attaches no listener, is not suppressed and
\* leaves the cursor at 0 (forward) or -1 (backward).
C16_EmptySequenceNoOp ==
  [][ (Len(markers) = 0 /\ TabInContainer(last'))
        => /\ icon' = icon
           /\ mapCenter' = mapCenter
           /\ ~last'.panned
           /\ listeners' = listeners
           /\ ~last'.prevented
           /\ currentMarker' = (IF last'.shift THEN -1 ELSE 0) ]_vars

\* C17: a key-down with focus outside the container changes nothing but the
\* cursor (-1 on Tab, length on Shift+Tab, unchanged on another key) and is
\* never suppressed; a non-Tab key-down in the container leaves cursor,
\* icons and listeners unchanged.
C17_KeyDownFrame ==
  [][ (last'.kind = "keydown" /\ ~TabInContainer(last'))
        => /\ icon' = icon
           /\ mapCenter' = mapCenter
           /\ listeners' = listeners
           /\ previousMarkerListener' = previousMarkerListener
           /\ ~last'.prevented
           /\ currentMarker' =
                (IF TabOutside(last')
                   THEN (IF last'.shift THEN Len(markers) ELSE -1)
                   ELSE currentMarker) ]_vars

\* C19: in distinct-icon mode no entry of markerIcons is the selected icon.
C19_CaptureNeverSelectedIcon ==
  distinctMarkerIconFlag =>
    \A i \in 1..Len(markerIcons) : markerIcons[i] # selectedMarkerIcon

\* C20: when a step or a focus loss invokes deselect with an absent marker,
\* no Enter-activation listener attached by an earlier handler is live.
C20_AbsentDeselectNoLiveListener ==
  [][ ((TabInContainer(last') \/ last'.kind = "focusout")
         /\ last'.deselected = NoMarker)
        => listeners = {} ]_vars

\* C15: a deselect that restores an icon from markerIcons reads the entry at
\* the index, in markers, of the marker it deselects.
C15_RestoreIndexMatchesMarker ==
  (last.deselected # NoMarker /\ Len(markerIcons) # 0) =>
    last.iconIndex = IndexOf(markers, last.deselected)

\* a backward step has vacated a marker at index 1 or above and restored its
\* icon from markerIcons
C15_Witness ==
  /\ TabInContainer(last)
  /\ last.shift
  /\ last.deselected # NoMarker
  /\ last.selected # NoMarker
  /\ Len(markerIcons) # 0
  /\ last.iconIndex >= 1

\* C18: with the container focused, at most length consecutive Tabs in one
\* direction are suppressed, so a Tab that is not suppressed comes within
\* length+1 presses.
C18_NoKeyboardTrap == streak.count <= Len(markers)

====
